---- MODULE Spec2Model ----
(***************************************************************************)
(* Model of the iter_vals! macro (src/src/lib.rs).                         *)
(*                                                                         *)
(* iter_vals!(f1, ..., fn) expands to                                      *)
(*     iter_vals!(f1).chain(iter_vals!(f2)) ... .chain(iter_vals!(fn))     *)
(* where every fragment is one of                                          *)
(*     v             => core::iter::once(v)                                *)
(*     [..= c; v]    => if c { Some(v) } else { None }.into_iter()         *)
(*     [.. s]        => s.into_iter()                                      *)
(* and iter_vals!() is core::iter::empty().                                *)
(*                                                                         *)
(* The expansion is an ordinary Rust expression: all the fragment          *)
(* expressions are evaluated, left to right, when the expression is        *)
(* evaluated (Construct).  The resulting value is a left-nested tree of    *)
(* Chain adapters over the per-fragment iterators, advanced by next()      *)
(* (Pull).  The iterators are modelled as values; evaluation side effects  *)
(* are recorded in the history variable log.                               *)
(***************************************************************************)
EXTENDS Integers, Sequences, FiniteSets, TLC

\* Bounds of the model.
MaxFrags == 3
MaxPulls == 8
MaxNestFrags == 3

Elems == {"x", "y"}

\* Results of next(): an element, NoneV, or a panic unwinding out of the call.
NoneV == "None"
Panic == "Panic"

\* What an expression or a step of an expanded source can do besides
\* producing an element: Fail panics; Gap is a source whose next() returns
\* None although it has more to give afterwards (Iterator::next allows it:
\* only FusedIterator promises None forever).
Fail == "Fail"
Gap == "Gap"

\* A chain's front half after Chain::next has cleared it.
Cleared == [type |-> "cleared"]
NoIter == [type |-> "none"]
NoFailure == [phase |-> "none", id |-> 0]

(***************************************************************************)
(* Inputs: the fragments of one macro invocation.                          *)
(***************************************************************************)
\* $val: an element, or an expression that panics.
Singles ==
    { [kind |-> "Single", val |-> "x"],
      [kind |-> "Single", val |-> "y"],
      [kind |-> "Single", val |-> Fail] }

\* $cond and $val: each a value, or an expression that panics.
Conditionals ==
    { [kind |-> "Conditional", cond |-> "true", val |-> "x"],
      [kind |-> "Conditional", cond |-> "false", val |-> "y"],
      [kind |-> "Conditional", cond |-> "false", val |-> Fail],
      [kind |-> "Conditional", cond |-> "true", val |-> Fail],
      [kind |-> "Conditional", cond |-> Fail, val |-> "x"] }

\* The sources expanded: src lists what the successive calls of next() do;
\* after the last of them the source returns None for ever.
Expands ==
    { [kind |-> "Expand", src |-> <<>>],
      [kind |-> "Expand", src |-> <<"y">>],
      [kind |-> "Expand", src |-> <<"x", "y">>],
      [kind |-> "Expand", src |-> <<Gap, "x">>],
      [kind |-> "Expand", src |-> <<"y", Fail>>] }

Fragments == Singles \cup Conditionals \cup Expands

FragLists(n) == [1..n -> Fragments]

\* A smaller fragment alphabet for the nested-invocation comparison.
NestFragments ==
    { [kind |-> "Single", val |-> "x"],
      [kind |-> "Conditional", cond |-> "false", val |-> "x"],
      [kind |-> "Conditional", cond |-> Fail, val |-> "y"],
      [kind |-> "Expand", src |-> <<>>],
      [kind |-> "Expand", src |-> <<"x", "y">>],
      [kind |-> "Expand", src |-> <<Gap, "y">>],
      [kind |-> "Expand", src |-> <<"y", Fail>>] }
NestSeqs(n) == UNION {[1..k -> NestFragments] : k \in 0..n}

\* [.. iter_vals!(B...)]: an expansion whose source is itself an invocation.
Nested(B) == [kind |-> "Nested", inner |-> B]
\* A..., [.. iter_vals!(B...)], C... for every split of a list into A, B, C.
NestLists ==
    UNION { { SubSeq(L, 1, i) \o <<Nested(SubSeq(L, i + 1, j))>> \o SubSeq(L, j + 1, Len(L)) :
                i \in 0..j } :
            <<L, j>> \in { <<M, k>> \in NestSeqs(MaxNestFrags) \X (0..MaxNestFrags) : k <= Len(M) } }

RECURSIVE LeafCount(_)
LeafCount(fs) ==
    IF fs = <<>> THEN 0
    ELSE LET f == fs[Len(fs)]
         IN LeafCount(SubSeq(fs, 1, Len(fs) - 1))
              + (IF f.kind = "Nested" THEN LeafCount(f.inner) ELSE 1)

\* The same fragments written in one flat invocation.
RECURSIVE Flatten(_)
Flatten(fs) ==
    IF fs = <<>> THEN <<>>
    ELSE LET f == fs[1]
         IN (IF f.kind = "Nested" THEN Flatten(f.inner) ELSE <<f>>) \o Flatten(Tail(fs))

(***************************************************************************)
(* Construction: the macro arms.  Each returns the iterator built, the     *)
(* evaluation events in order, and the id of the fragment whose expression *)
(* panicked (0 if none).  id is the fragment's position, counted over the  *)
(* flattened list.                                                         *)
(***************************************************************************)
Built(i, l) == [it |-> i, log |-> l, failed |-> 0]
Unwound(l, id) == [it |-> NoIter, log |-> l, failed |-> id]

\* () => core::iter::empty()
EmptyArm == Built([type |-> "empty"], <<>>)

\* ($val:expr) => core::iter::once($val)
OnceArm(f, id) ==
    IF f.val = Fail
    THEN Unwound(<<<<"val", id>>>>, id)
    ELSE Built([type |-> "once", id |-> id, val |-> f.val], <<<<"val", id>>>>)

\* Mutant: the condition is ignored, the value is always included.
ConditionalArmAlways(f, id) ==
    IF f.cond = Fail
    THEN Unwound(<<<<"pred", id>>>>, id)
    ELSE IF f.val = Fail
         THEN Unwound(<<<<"pred", id>>, <<"val", id>>>>, id)
         ELSE Built([type |-> "option", id |-> id, val |-> f.val],
                    <<<<"pred", id>>, <<"val", id>>>>)

\* Mutant: the condition is written out twice (if c { Some(v) } else if !c { None } ...).
ConditionalArmTwice(f, id) ==
    IF f.cond = Fail
    THEN Unwound(<<<<"pred", id>>>>, id)
    ELSE IF f.cond = "true"
         THEN IF f.val = Fail
              THEN Unwound(<<<<"pred", id>>, <<"val", id>>>>, id)
              ELSE Built([type |-> "option", id |-> id, val |-> f.val],
                         <<<<"pred", id>>, <<"val", id>>>>)
         ELSE Built([type |-> "option", id |-> id, val |-> NoneV],
                    <<<<"pred", id>>, <<"pred", id>>>>)

\* Mutant: the value is computed first (Some($val).filter(|_| $cond)).
ConditionalArmEagerVal(f, id) ==
    IF f.val = Fail
    THEN Unwound(<<<<"val", id>>>>, id)
    ELSE IF f.cond = Fail
         THEN Unwound(<<<<"val", id>>, <<"pred", id>>>>, id)
         ELSE Built([type |-> "option", id |-> id,
                     val |-> IF f.cond = "true" THEN f.val ELSE NoneV],
                    <<<<"val", id>>, <<"pred", id>>>>)

\* ([..= $cond:expr ; $val:expr]) => if $cond { Some($val) } else { None }.into_iter()
ConditionalArm(f, id) ==
    IF f.cond = Fail
    THEN Unwound(<<<<"pred", id>>>>, id)
    ELSE IF f.cond = "true"
         THEN IF f.val = Fail
              THEN Unwound(<<<<"pred", id>>, <<"val", id>>>>, id)
              ELSE Built([type |-> "option", id |-> id, val |-> f.val],
                         <<<<"pred", id>>, <<"val", id>>>>)
         ELSE Built([type |-> "option", id |-> id, val |-> NoneV], <<<<"pred", id>>>>)

\* Mutant: the source is asked for its first element when the iterator is built.
ExpandArmPeeks(f, id) ==
    Built([type |-> "src", id |-> id, script |-> f.src, pos |-> 0],
          <<<<"into_iter", id>>,
            <<"take", id, IF f.src # <<>> /\ f.src[1] \in Elems THEN f.src[1] ELSE NoneV>>>>)

\* ([.. $val:expr]) => $val.into_iter(), $val an iterable
ExpandArm(f, id) ==
    Built([type |-> "src", id |-> id, script |-> f.src, pos |-> 0], <<<<"into_iter", id>>>>)

RECURSIVE IterVals(_, _)

\* One fragment; its leaves are numbered from base + 1.
Arm(f, base) ==
    CASE f.kind = "Single" -> OnceArm(f, base + 1)
      [] f.kind = "Conditional" -> ConditionalArm(f, base + 1)
      [] f.kind = "Expand" -> ExpandArm(f, base + 1)
      [] f.kind = "Nested" -> IterVals(f.inner, base)

\* ($first_val:tt, $($other_vals:tt),*) =>
\*     iter_vals!($first_val) $( .chain(iter_vals!($other_vals)) )*
IterVals(fs, base) ==
    IF fs = <<>> THEN EmptyArm
    ELSE IF Len(fs) = 1 THEN Arm(fs[1], base)
    ELSE LET front == SubSeq(fs, 1, Len(fs) - 1)
             a == IterVals(front, base)
         IN IF a.failed # 0 THEN a
            ELSE LET b == Arm(fs[Len(fs)], base + LeafCount(front))
                 IN IF b.failed # 0
                    THEN Unwound(a.log \o b.log, b.failed)
                    ELSE Built([type |-> "chain", a |-> a.it, b |-> b.it], a.log \o b.log)

(***************************************************************************)
(* Iterator::next of the iterators the arms build.  Each returns the       *)
(* iterator afterwards, the result, the fragment the element came from     *)
(* (0 if none) and the calls made on expanded sources.                     *)
(***************************************************************************)
Step(i, r, from, l) == [it |-> i, res |-> r, from |-> from, log |-> l]

\* core::iter::Empty
EmptyNext(it) == Step(it, NoneV, 0, <<>>)

\* core::iter::Once and core::option::IntoIter: Option::take
OptionNext(it) ==
    IF it.val = NoneV THEN Step(it, NoneV, 0, <<>>)
    ELSE Step([it EXCEPT !.val = NoneV], it.val, it.id, <<>>)

\* The expanded source's own next(), following its script.
SourceNext(it) ==
    IF it.pos >= Len(it.script)
    THEN Step(it, NoneV, 0, <<<<"take", it.id, NoneV>>>>)
    ELSE LET sym == it.script[it.pos + 1]
             r == IF sym = Gap THEN NoneV ELSE IF sym = Fail THEN Panic ELSE sym
         IN Step([it EXCEPT !.pos = it.pos + 1], r,
                 IF r \in Elems THEN it.id ELSE 0, <<<<"take", it.id, r>>>>)

RECURSIVE IterNext(_)

\* Mutant: the exhausted front half is kept and asked again on every call.
ChainNextKeepsA(it) ==
    LET ra == IterNext(it.a)
    IN IF ra.res # NoneV
       THEN Step([it EXCEPT !.a = ra.it], ra.res, ra.from, ra.log)
       ELSE LET rb == IterNext(it.b)
            IN Step([it EXCEPT !.a = ra.it, !.b = rb.it], rb.res, rb.from, ra.log \o rb.log)

\* Mutant: the call that finds the front half exhausted returns None itself
\* and leaves the back half to the next call.
ChainNextStops(it) ==
    IF it.a.type = "cleared"
    THEN LET rb == IterNext(it.b)
         IN Step([it EXCEPT !.b = rb.it], rb.res, rb.from, rb.log)
    ELSE LET ra == IterNext(it.a)
         IN Step([it EXCEPT !.a = IF ra.res = NoneV THEN Cleared ELSE ra.it],
                 ra.res, ra.from, ra.log)

\* Mutant: the back half is asked before the front half.
ChainNextBFirst(it) ==
    LET rb == IterNext(it.b)
    IN IF rb.res # NoneV
       THEN Step([it EXCEPT !.b = rb.it], rb.res, rb.from, rb.log)
       ELSE LET ra == IF it.a.type = "cleared" THEN Step(Cleared, NoneV, 0, <<>>)
                      ELSE IterNext(it.a)
            IN Step([it EXCEPT !.a = ra.it, !.b = rb.it], ra.res, ra.from, rb.log \o ra.log)

\* Mutant: a panic in the front half is caught and taken for its end.
ChainNextSwallows(it) ==
    LET ra == IF it.a.type = "cleared" THEN Step(Cleared, NoneV, 0, <<>>) ELSE IterNext(it.a)
    IN IF ra.res \in Elems
       THEN Step([it EXCEPT !.a = ra.it], ra.res, ra.from, ra.log)
       ELSE LET rb == IterNext(it.b)
            IN Step([it EXCEPT !.a = Cleared, !.b = rb.it], rb.res, rb.from, ra.log \o rb.log)

\* core::iter::Chain::next:
\*     and_then_or_clear(&mut self.a, Iterator::next)
\*         .or_else(|| self.b.as_mut()?.next())
ChainNext(it) ==
    LET ra == IF it.a.type = "cleared" THEN Step(Cleared, NoneV, 0, <<>>) ELSE IterNext(it.a)
    IN IF ra.res # NoneV
       THEN Step([it EXCEPT !.a = ra.it], ra.res, ra.from, ra.log)
       ELSE LET rb == IterNext(it.b)
            IN Step([it EXCEPT !.a = Cleared, !.b = rb.it], rb.res, rb.from, ra.log \o rb.log)

IterNext(it) ==
    CASE it.type = "empty" -> EmptyNext(it)
      [] it.type = "once" -> OptionNext(it)
      [] it.type = "option" -> OptionNext(it)
      [] it.type = "src" -> SourceNext(it)
      [] it.type = "chain" -> ChainNext(it)

(***************************************************************************)
(* State.                                                                  *)
(***************************************************************************)
VARIABLES
    frags,      \* the fragments written in the invocation
    pc,         \* "start", "built", or "panicked"
    it,         \* the iterator the invocation evaluated to
    hist,       \* the result of every call of next() so far
    origin,     \* for every call, the fragment its element came from (0: none)
    log,        \* evaluation events, in order; <<"pull">> opens every call
    failure,    \* where a panic unwound from
    flat        \* the flat twin of a nested invocation (SpecNest only)

vars == <<frags, pc, it, hist, origin, log, failure, flat>>

NoTwin == [pc |-> "none", it |-> NoIter, hist |-> <<>>]

Init ==
    /\ \E n \in 0..MaxFrags : frags \in FragLists(n)
    /\ pc = "start"
    /\ it = NoIter
    /\ hist = <<>>
    /\ origin = <<>>
    /\ log = <<>>
    /\ failure = NoFailure
    /\ flat = NoTwin

\* Evaluating the macro invocation.
Construct ==
    /\ pc = "start"
    /\ LET r == IterVals(frags, 0)
       IN /\ it' = r.it
          /\ log' = r.log
          /\ pc' = IF r.failed # 0 THEN "panicked" ELSE "built"
          /\ failure' = IF r.failed # 0 THEN [phase |-> "construct", id |-> r.failed]
                        ELSE NoFailure
    /\ UNCHANGED <<frags, hist, origin, flat>>

\* The id of the source whose next() panicked: the last call in a log.
LastId(l) == l[Len(l)][2]

\* One call of next() on the iterator.
Pull ==
    /\ pc = "built"
    /\ Len(hist) < MaxPulls
    /\ LET r == IterNext(it)
       IN /\ it' = r.it
          /\ hist' = Append(hist, r.res)
          /\ origin' = Append(origin, r.from)
          /\ log' = log \o <<<<"pull">>>> \o r.log
          /\ pc' = IF r.res = Panic THEN "panicked" ELSE "built"
          /\ failure' = IF r.res = Panic THEN [phase |-> "pull", id |-> LastId(r.log)]
                        ELSE NoFailure
    /\ UNCHANGED <<frags, flat>>

Next == Construct \/ Pull

Spec == Init /\ [][Next]_vars

(***************************************************************************)
(* A nested invocation next to the same fragments written flat.            *)
(***************************************************************************)
InitNest ==
    /\ frags \in NestLists
    /\ pc = "start"
    /\ it = NoIter
    /\ hist = <<>>
    /\ origin = <<>>
    /\ log = <<>>
    /\ failure = NoFailure
    /\ flat = NoTwin

ConstructBoth ==
    /\ Construct!1
    /\ LET r == IterVals(frags, 0)
           q == IterVals(Flatten(frags), 0)
       IN /\ it' = r.it
          /\ log' = r.log
          /\ pc' = IF r.failed # 0 THEN "panicked" ELSE "built"
          /\ failure' = IF r.failed # 0 THEN [phase |-> "construct", id |-> r.failed]
                        ELSE NoFailure
          /\ flat' = [pc |-> IF q.failed # 0 THEN "panicked" ELSE "built",
                      it |-> q.it, hist |-> <<>>]
    /\ UNCHANGED <<frags, hist, origin>>

PullBoth ==
    /\ pc = "built"
    /\ flat.pc = "built"
    /\ Len(hist) < MaxPulls
    /\ LET r == IterNext(it)
           q == IterNext(flat.it)
       IN /\ it' = r.it
          /\ hist' = Append(hist, r.res)
          /\ origin' = Append(origin, r.from)
          /\ log' = log \o <<<<"pull">>>> \o r.log
          /\ pc' = IF r.res = Panic THEN "panicked" ELSE "built"
          /\ failure' = IF r.res = Panic THEN [phase |-> "pull", id |-> LastId(r.log)]
                        ELSE NoFailure
          /\ flat' = [pc |-> IF q.res = Panic THEN "panicked" ELSE "built",
                      it |-> q.it, hist |-> Append(flat.hist, q.res)]
    /\ UNCHANGED frags

NextNest == ConstructBoth \/ PullBoth

SpecNest == InitNest /\ [][NextNest]_vars

(***************************************************************************)
(* Vocabulary of the properties.                                           *)
(***************************************************************************)
TypeOK ==
    /\ pc \in {"start", "built", "panicked"}
    /\ Len(hist) <= MaxPulls
    /\ Len(origin) = Len(hist)

\* The elements a source gives before it first reports exhaustion.
RECURSIVE SourcePrefix(_)
SourcePrefix(s) ==
    IF s = <<>> THEN <<>>
    ELSE IF Head(s) \in Elems THEN <<Head(s)>> \o SourcePrefix(Tail(s))
    ELSE <<>>

\* What a fragment contributes to the sequence.
Contribution(f) ==
    CASE f.kind = "Single" -> <<f.val>>
      [] f.kind = "Conditional" -> IF f.cond = "true" THEN <<f.val>> ELSE <<>>
      [] f.kind = "Expand" -> SourcePrefix(f.src)

RECURSIVE Concatenation(_)
Concatenation(fs) ==
    IF fs = <<>> THEN <<>> ELSE Contribution(Head(fs)) \o Concatenation(Tail(fs))

IsPrefix(s, t) == Len(s) <= Len(t) /\ SubSeq(t, 1, Len(s)) = s

Exhausted == \E k \in DOMAIN hist : hist[k] = NoneV
FirstNone == CHOOSE k \in DOMAIN hist : hist[k] = NoneV /\ \A l \in 1..(k - 1) : hist[l] # NoneV
NoneCount == Cardinality({k \in DOMAIN hist : hist[k] = NoneV})

\* The elements returned so far, and those returned up to the first exhaustion.
Returned == SelectSeq(hist, LAMBDA r : r \in Elems)
ReturnedAtExhaustion == SubSeq(hist, 1, FirstNone - 1)

\* The elements fragment i has given to the caller in the first n pulls.
RECURSIVE OutFromUpTo(_, _)
OutFromUpTo(i, n) ==
    IF n = 0 THEN <<>>
    ELSE OutFromUpTo(i, n - 1) \o (IF origin[n] = i THEN <<hist[n]>> ELSE <<>>)
OutFrom(i) == OutFromUpTo(i, Len(hist))

Events(e) == {k \in DOMAIN log : log[k] = e}
PredEvals(i) == Cardinality(Events(<<"pred", i>>))
ValEvals(i) == Cardinality(Events(<<"val", i>>))
Takes(i) == SelectSeq(log, LAMBDA e : Len(e) = 3 /\ e[2] = i)
Begun(i) == Takes(i) # <<>>
PullEvents == Events(<<"pull">>)
DuringConstruction(k) == \A p \in PullEvents : k < p

\* The sequence was constructed (and possibly unwound from a later pull).
Constructed == pc = "built" \/ (pc = "panicked" /\ failure.phase = "pull")

\* The pull cursor has reached fragment i: a pull was made and every fragment
\* before i has handed over all it contributes.
Reached(i) ==
    /\ hist # <<>>
    /\ \A j \in 1..(i - 1) : OutFrom(j) = Contribution(frags[j])

Kind(k) == {i \in DOMAIN frags : frags[i].kind = k}

(***************************************************************************)
(* Properties.                                                             *)
(***************************************************************************)

\* C1: pulled until it first reports exhaustion, the sequence has returned
\* exactly the concatenation, in listed order, of its fragments'
\* contributions: fragment by fragment, nothing reordered, duplicated or
\* dropped; with no fragments the first pull already reports exhaustion.
OrderPreserved ==
    /\ IsPrefix(IF Exhausted THEN ReturnedAtExhaustion ELSE Returned, Concatenation(frags))
    /\ Exhausted =>
         /\ ReturnedAtExhaustion = Concatenation(frags)
         /\ \A k, l \in 1..(FirstNone - 1) : k < l => origin[k] <= origin[l]
         /\ frags = <<>> => FirstNone = 1

OrderPreservedWitness ==
    /\ Len(frags) = 3
    /\ frags[1].kind = "Expand" /\ frags[2].kind = "Conditional" /\ frags[3].kind = "Single"
    /\ Exhausted
    /\ FirstNone = 5

\* C2: a Conditional fragment gives exactly its value when its predicate is
\* true and nothing when it is false, wherever it stands, and a false one
\* does not keep the fragments after it from being yielded.
ConditionalContributes ==
    Exhausted =>
      /\ \A i \in Kind("Conditional") :
           /\ OutFromUpTo(i, FirstNone)
                = (IF frags[i].cond = "true" THEN <<frags[i].val>> ELSE <<>>)
           /\ \A j \in (i + 1)..Len(frags) :
                OutFromUpTo(j, FirstNone) = Contribution(frags[j])
      /\ frags = <<[kind |-> "Conditional", cond |-> "true", val |-> "x"],
                   [kind |-> "Conditional", cond |-> "false", val |-> "y"]>>
           => ReturnedAtExhaustion = <<"x">>
      /\ frags = <<[kind |-> "Conditional", cond |-> "false", val |-> "y"],
                   [kind |-> "Conditional", cond |-> "true", val |-> "x"]>>
           => ReturnedAtExhaustion = <<"x">>

ConditionalContributesWitness ==
    /\ Len(frags) = 3
    /\ frags[1].kind = "Single"
    /\ frags[2].kind = "Conditional" /\ frags[2].cond = "false"
    /\ frags[3].kind = "Expand"
    /\ Exhausted
    /\ ReturnedAtExhaustion = <<"x", "x", "y">>

\* C3: an Expand fragment gives every element of its source, in the source's
\* order and each once, in place; an empty source gives nothing and does not
\* end the sequence.
ExpandContributes ==
    Exhausted =>
      /\ \A i \in Kind("Expand") :
           /\ OutFromUpTo(i, FirstNone) = SourcePrefix(frags[i].src)
           /\ \A k \in 1..(FirstNone - 1) : origin[k] = i =>
                hist[k] = frags[i].src[Cardinality({l \in 1..k : origin[l] = i})]
      /\ FirstNone = Len(Concatenation(frags)) + 1
      /\ frags = <<[kind |-> "Expand", src |-> <<"x", "y">>],
                   [kind |-> "Expand", src |-> <<"y">>]>>
           => ReturnedAtExhaustion = <<"x", "y", "y">>
      /\ frags = <<[kind |-> "Expand", src |-> <<>>], [kind |-> "Expand", src |-> <<"y">>]>>
           => ReturnedAtExhaustion = <<"y">>

ExpandContributesWitness ==
    /\ Len(frags) = 3
    /\ frags[1] = [kind |-> "Expand", src |-> <<>>]
    /\ frags[2] = [kind |-> "Expand", src |-> <<"x", "y">>]
    /\ frags[3] = [kind |-> "Expand", src |-> <<"y">>]
    /\ Exhausted
    /\ FirstNone = 4

\* A source that keeps reporting exhaustion once it has reported it.
Fused(s) == \A p, q \in DOMAIN s : p < q /\ s[p] = Gap => s[q] = Gap

\* The last fragment is not an expansion of a source that resumes.
LastFused ==
    \/ frags = <<>>
    \/ frags[Len(frags)].kind # "Expand"
    \/ Fused(frags[Len(frags)].src)

\* C4 as claimed: once a pull has reported exhaustion, every later pull
\* reports exhaustion, whatever the expanded sources are.
ExhaustionIsTerminal ==
    \A k, l \in DOMAIN hist : k < l /\ hist[k] = NoneV => hist[l] = NoneV

\* C4 as amended: once a pull has reported exhaustion, every later pull
\* reports exhaustion, provided the source of the last fragment, if that is
\* an Expand, itself keeps reporting exhaustion; the sources of the other
\* fragments need not.
ExhaustionIsTerminalWhenLastFused ==
    LastFused => ExhaustionIsTerminal

ExhaustionIsTerminalWitness ==
    /\ Len(frags) = 2
    /\ frags[1] = [kind |-> "Expand", src |-> <<Gap, "x">>]
    /\ frags[2] = [kind |-> "Expand", src |-> <<"y">>]
    /\ NoneCount >= 2

\* C5: the predicate of every Conditional fragment is evaluated exactly once
\* over construction and any number of pulls, also after exhaustion and when
\* the sequence is never pulled as far as the fragment.
PredicateEvaluatedOnce ==
    \A i \in Kind("Conditional") :
      /\ PredEvals(i) <= 1
      /\ Constructed => PredEvals(i) = 1

PredicateEvaluatedOnceWitness ==
    /\ Len(frags) = 2
    /\ frags[1].kind = "Conditional"
    /\ frags[2].kind = "Conditional"
    /\ pc = "built"
    /\ NoneCount >= 3
    /\ PredEvals(1) = 1 /\ PredEvals(2) = 1

\* C6 as claimed: a Conditional's predicate is not checked, and an Expand's
\* source is not begun, before the pull cursor reaches the fragment: not at
\* construction and not while an earlier fragment has unreturned output.
LazyLeftToRight ==
    Constructed =>
      \A i \in DOMAIN frags :
        (PredEvals(i) > 0 \/ Begun(i)) => Reached(i)

\* C6 as amended: the predicates are checked eagerly, at construction, left
\* to right in fragment order and before any pull; only the consumption of
\* Expand sources is lazy: no source is asked for an element at construction
\* or while an earlier fragment has unreturned output.
EagerPredicatesLazySources ==
    /\ \A i \in Kind("Conditional") :
         /\ Constructed => PredEvals(i) = 1
         /\ \A k \in Events(<<"pred", i>>) :
              /\ DuringConstruction(k)
              /\ \A j \in Kind("Conditional") : \A m \in Events(<<"pred", j>>) :
                   j < i => m < k
    /\ \A i \in Kind("Expand") : Begun(i) => Reached(i)

EagerPredicatesLazySourcesWitness ==
    /\ Len(frags) = 3
    /\ frags[1].kind = "Expand" /\ frags[1].src = <<"x", "y">>
    /\ frags[2].kind = "Conditional"
    /\ frags[3].kind = "Expand" /\ frags[3].src # <<>>
    /\ pc = "built"
    /\ hist = <<"x">>
    /\ PredEvals(2) = 1
    /\ ~Begun(3)

\* The outcomes of the calls made on source i, and what its script gives.
TakeResults(i) == [k \in DOMAIN Takes(i) |-> Takes(i)[k][3]]
ScriptResult(sym) == IF sym = Gap THEN NoneV ELSE IF sym = Fail THEN Panic ELSE sym

\* C7: Expand sources are consumed once, in order, and never ahead of the
\* caller: whenever the caller has control, the elements taken from a source
\* are exactly those of its elements already returned, every call goes one
\* step further in the source (none taken twice, no restart), and no source
\* is asked while an earlier fragment has unreturned output.
SourcesConsumedOnce ==
    \A i \in Kind("Expand") :
      /\ SelectSeq(TakeResults(i), LAMBDA r : r \in Elems) = OutFrom(i)
      /\ \A k \in DOMAIN TakeResults(i) :
           TakeResults(i)[k] = (IF k <= Len(frags[i].src) THEN ScriptResult(frags[i].src[k])
                                ELSE NoneV)
      /\ Begun(i) => \A j \in 1..(i - 1) : OutFrom(j) = Contribution(frags[j])

SourcesConsumedOnceWitness ==
    /\ Len(frags) = 3
    /\ frags[1].kind = "Single"
    /\ frags[2].kind = "Expand" /\ frags[2].src = <<"x", "y">>
    /\ frags[3].kind = "Expand" /\ frags[3].src = <<"y">>
    /\ pc = "built"
    /\ hist = <<"x", "x">>
    /\ Len(Takes(2)) = 1

\* C8 as claimed: an invocation expanded inside another gives, pull for
\* pull, what the same fragments give written in one flat invocation, and is
\* exhausted at the same pull; also when the inner list is empty, first or
\* last.
NestedFlattens ==
    flat.pc # "none" =>
      /\ flat.hist = hist
      /\ flat.pc = pc

\* The inner invocation is empty and last, behind a source that resumes:
\* nested, the chain ends in core::iter::empty(); flat, it ends in the source.
EmptyNestedBehindResuming ==
    /\ Len(frags) >= 2
    /\ frags[Len(frags)].kind = "Nested" /\ frags[Len(frags)].inner = <<>>
    /\ frags[Len(frags) - 1].kind = "Expand" /\ ~Fused(frags[Len(frags) - 1].src)

\* C8 as amended: the nested and the flat invocation agree pull for pull up
\* to and including the first report of exhaustion, and on every later pull
\* as well unless the inner invocation is empty and stands last, directly
\* behind an Expand whose source resumes after reporting exhaustion.
NestedFlattensUntilExhaustion ==
    flat.pc # "none" =>
      /\ Len(flat.hist) = Len(hist)
      /\ \A k \in 1..(IF Exhausted THEN FirstNone ELSE Len(hist)) : flat.hist[k] = hist[k]
      /\ ~Exhausted => flat.pc = pc
      /\ ~EmptyNestedBehindResuming => flat.hist = hist /\ flat.pc = pc

NestedFlattensWitness ==
    /\ Len(frags) = 2
    /\ frags[1].kind = "Expand"
    /\ frags[2].kind = "Nested" /\ Len(frags[2].inner) = 2
    /\ frags[2].inner[1].kind = "Expand" /\ frags[2].inner[1].src = <<Gap, "y">>
    /\ frags[2].inner[2].kind = "Single"
    /\ NoneCount >= 2
    /\ flat.hist = hist

\* The elements that precede the failure of fragment i in the output.
BeforeFailure(i) ==
    Concatenation(SubSeq(frags, 1, i - 1))
      \o (IF frags[i].kind = "Expand"
          THEN SelectSeq(SubSeq(frags[i].src, 1, Len(Takes(i)) - 1), LAMBDA r : r \in Elems)
          ELSE <<>>)

\* C9 as claimed: a failure of a predicate or of a source's next() reaches
\* the caller of the pull that got to it, after the elements before it have
\* been returned; it is not raised at construction.
FailureAtTriggeringPull ==
    pc = "panicked" /\ log[Len(log)][1] \in {"pred", "take"} =>
      /\ failure.phase = "pull"
      /\ Returned = BeforeFailure(failure.id)

\* C9 as amended: a failure of a predicate is raised at construction, by the
\* invocation itself, before any pull and before anything to the right of
\* the fragment is evaluated; a failure of a source's next() reaches the
\* caller of the pull that got to it, after every element before it has been
\* returned and before any later one.  No failure is swallowed or retried.
FailureSurfaces ==
    /\ pc = "panicked" =>
         /\ failure.id \in DOMAIN frags
         /\ frags[failure.id].kind = "Conditional" =>
              /\ failure.phase = "construct"
              /\ hist = <<>>
              /\ log[Len(log)][2] = failure.id
              /\ \A k \in DOMAIN log : log[k][2] <= failure.id
         /\ frags[failure.id].kind = "Expand" =>
              /\ failure.phase = "pull"
              /\ hist[Len(hist)] = Panic
              /\ log[Len(log)] = <<"take", failure.id, Panic>>
              /\ Returned = BeforeFailure(failure.id)
    /\ \A k \in DOMAIN log :
         \/ (Len(log[k]) = 3 /\ log[k][3] = Panic)
         \/ (log[k][1] = "pred" /\ frags[log[k][2]].cond = Fail)
         => pc = "panicked" /\ k = Len(log)

FailureSurfacesWitness ==
    /\ Len(frags) = 3
    /\ frags[1].kind = "Conditional"
    /\ frags[2].kind = "Expand" /\ frags[2].src = <<"y", Fail>>
    /\ pc = "panicked"
    /\ failure = [phase |-> "pull", id |-> 2]
    /\ hist = <<"x", "y", Panic>>

\* C10: the value expression of a Conditional fragment is evaluated only
\* after its predicate and only when the predicate is true, and then once.
ValueOnlyWhenTrue ==
    \A i \in Kind("Conditional") :
      /\ ValEvals(i) <= 1
      /\ \A k \in Events(<<"val", i>>) :
           /\ frags[i].cond = "true"
           /\ \E m \in Events(<<"pred", i>>) : m < k
      /\ Constructed => ValEvals(i) = (IF frags[i].cond = "true" THEN 1 ELSE 0)

ValueOnlyWhenTrueWitness ==
    /\ Len(frags) = 2
    /\ frags[1] = [kind |-> "Conditional", cond |-> "false", val |-> Fail]
    /\ frags[2] = [kind |-> "Conditional", cond |-> "true", val |-> "x"]
    /\ pc = "built"
    /\ hist = <<"x", NoneV>>
    /\ ValEvals(1) = 0 /\ ValEvals(2) = 1
====
